---- MODULE Spec2Model ----
(***************************************************************************)
(* Model of alembic_check.check_migrations: the chain builder              *)
(* (build_migration_chain), the chain validator (validate_migration_chain) *)
(* and the command-line entry point (main / run_checks).                   *)
(*                                                                         *)
(* Revision identifiers are Python strings.  The code only compares them   *)
(* for equality, sorts them and tests their truthiness, so they are        *)
(* modelled as the integers 0..MaxRev in string order, 0 being the empty   *)
(* string "" (the least string, and the only falsy one).  None is -1.      *)
(* A dict is a sequence of <<key, value>> pairs with pairwise distinct     *)
(* keys, in insertion order (the order a Python dict iterates in).         *)
(***************************************************************************)
EXTENDS Integers, Sequences, FiniteSets

VARIABLES
    args,             \* main: the argument list after the program name
    dir_exists,       \* file system: whether migrations_dir exists
    pc,               \* position in the program
    revision,         \* build_migration_chain: loop local
    down_revision,    \* build_migration_chain: loop local
    migrations,       \* the dict revision -> down_revision
    sorted_migrations,\* validate_migration_chain: local
    error,            \* the exception in flight, or NoError
    ret               \* main's return value, None until it returns

vars == <<args, dir_exists, pc, revision, down_revision, migrations,
          sorted_migrations, error, ret>>

----------------------------------------------------------------------------
(* Bounds *)

MaxRev == 3
MaxLen == 3
MaxFiles == 3
MaxStaged == 1
MaxWide == 4

----------------------------------------------------------------------------
(* Values *)

None == -1
EmptyStr == 0

Revisions == 0..MaxRev
NonEmptyRevisions == Revisions \ {EmptyStr}
OptRevisions == Revisions \cup {None}

\* Python truthiness of an Optional[str]: None and "" are falsy.
Truthy(x) == x # None /\ x # EmptyStr

\* The elements of a sequence.
Range(s) == {s[i] : i \in DOMAIN s}

\* Exceptions: the class and the message's template and arguments.
Err(kind, msg, revs, down) ==
    [kind |-> kind, msg |-> msg, revs |-> revs, down |-> down]

NoError == Err("NoError", "", <<>>, None)

----------------------------------------------------------------------------
(* dict operations *)

Keys(m) == {m[i][1] : i \in DOMAIN m}

Values(m) == {m[i][2] : i \in DOMAIN m}

\* dict.get(k): the value stored under k, None when k is no key.
Get(m, k) ==
    IF k \in Keys(m)
    THEN m[CHOOSE i \in DOMAIN m : m[i][1] = k][2]
    ELSE None

----------------------------------------------------------------------------
(* validate_migration_chain: the four checks *)

\* list.insert keeping ascending key order; equal keys keep their order
\* (sorted() is stable).
RECURSIVE InsertByKey(_, _)
InsertByKey(s, x) ==
    IF s = <<>> THEN <<x>>
    ELSE IF x[1] < Head(s)[1] THEN <<x>> \o s
    ELSE <<Head(s)>> \o InsertByKey(Tail(s), x)

RECURSIVE SortByKey(_)
SortByKey(m) ==
    IF m = <<>> THEN <<>>
    ELSE InsertByKey(SortByKey(SubSeq(m, 1, Len(m) - 1)), m[Len(m)])

\* Mutant: the items are taken in dict order, not sorted.
SortedItems_unsorted(m) == m

\* sorted(migrations.items(), key=lambda x: x[0])
SortedItems(m) == SortByKey(m)

\* [rev for rev, down in sorted_migrations if down is None]
initial_migrations(sm) ==
    LET roots == SelectSeq(sm, LAMBDA p : p[2] = None)
    IN  [i \in 1..Len(roots) |-> roots[i][1]]

\* Mutant: the threshold is off by one.
CheckMultipleInitial_atleastone(sm) ==
    IF Len(initial_migrations(sm)) >= 1
    THEN Err("MultipleInitialMigrationsError",
             "Multiple initial migrations found", initial_migrations(sm), None)
    ELSE NoError

\* Check for multiple initial migrations.
CheckMultipleInitial(sm) ==
    IF Len(initial_migrations(sm)) > 1
    THEN Err("MultipleInitialMigrationsError",
             "Multiple initial migrations found", initial_migrations(sm), None)
    ELSE NoError

\* Check for missing down_revisions: the first item, in sorted order, whose
\* down_revision is truthy and is no key.
CheckMissing(m, sm) ==
    LET bad == {i \in DOMAIN sm : Truthy(sm[i][2]) /\ sm[i][2] \notin Keys(m)}
    IN  IF bad = {} THEN NoError
        ELSE LET i == CHOOSE j \in bad : \A k \in bad : j <= k
             IN  Err("MissingDownRevisionError",
                     "points to non-existent revision", <<sm[i][1]>>, sm[i][2])

\* list.index: the first position of x in path.
Index(path, x) == CHOOSE i \in DOMAIN path : path[i] = x /\ \A j \in 1..(i - 1) : path[j] # x

\* Mutant: the whole path walked is returned, not the part from cycle_start.
RECURSIVE Walk_wholepath(_, _, _)
Walk_wholepath(m, path, current) ==
    IF current = None THEN <<>>
    ELSE IF current \in Range(path) THEN Append(path, current)
    ELSE Walk_wholepath(m, Append(path, current), Get(m, current))

\* The while loop of check_cycle; <<>> stands for the None it returns.
RECURSIVE Walk(_, _, _)
Walk(m, path, current) ==
    IF current = None THEN <<>>
    ELSE IF current \in Range(path)
         THEN SubSeq(path, Index(path, current), Len(path)) \o <<current>>
    ELSE Walk(m, Append(path, current), Get(m, current))

check_cycle_wholepath(m, start_revision) == Walk_wholepath(m, <<>>, start_revision)

check_cycle(m, start_revision) == Walk(m, <<>>, start_revision)

\* Check for cycles starting from each revision, in dict order.
CheckCycles(m) ==
    LET hit == {i \in DOMAIN m : check_cycle(m, m[i][1]) # <<>>}
    IN  IF hit = {} THEN NoError
        ELSE LET i == CHOOSE j \in hit : \A k \in hit : j <= k
             IN  Err("CircularDependencyError", "Circular dependency found",
                     check_cycle(m, m[i][1]), None)

\* down_revisions.setdefault(down, []).append(rev): a dict, in insertion
\* order, from down_revision to the list of the revisions holding it.
SetDefaultAppend(d, down, rev) ==
    IF down \in Keys(d)
    THEN [i \in DOMAIN d |->
            IF d[i][1] = down THEN <<down, Append(d[i][2], rev)>> ELSE d[i]]
    ELSE Append(d, <<down, <<rev>>>>)

RECURSIVE down_revisions(_)
down_revisions(sm) ==
    IF sm = <<>> THEN <<>>
    ELSE LET rest == down_revisions(SubSeq(sm, 1, Len(sm) - 1))
             last == sm[Len(sm)]
         IN  IF last[2] # None
             THEN SetDefaultAppend(rest, last[2], last[1])
             ELSE rest

\* Mutant: of the entries holding more than one revision, the one with the
\* least down_revision is reported, not the first.
CheckDuplicates_leastdown(sm) ==
    LET d == down_revisions(sm)
        hit == {i \in DOMAIN d : Len(d[i][2]) > 1}
    IN  IF hit = {} THEN NoError
        ELSE LET i == CHOOSE j \in hit : \A k \in hit : d[j][1] <= d[k][1]
             IN  Err("DuplicateDownRevisionError",
                     "Multiple migrations have the same down_revision",
                     d[i][2], d[i][1])

\* Check for duplicate down_revisions: the first entry of down_revisions
\* holding more than one revision.
CheckDuplicates(sm) ==
    LET d == down_revisions(sm)
        hit == {i \in DOMAIN d : Len(d[i][2]) > 1}
    IN  IF hit = {} THEN NoError
        ELSE LET i == CHOOSE j \in hit : \A k \in hit : j <= k
             IN  Err("DuplicateDownRevisionError",
                     "Multiple migrations have the same down_revision",
                     d[i][2], d[i][1])

\* The whole of validate_migration_chain as a function of the dict: the
\* exception it raises, NoError when it returns None.
validate_migration_chain(m) ==
    IF m = <<>> THEN NoError
    ELSE LET sm == SortedItems(m)
         IN  IF CheckMultipleInitial(sm) # NoError THEN CheckMultipleInitial(sm)
             ELSE IF CheckMissing(m, sm) # NoError THEN CheckMissing(m, sm)
             ELSE IF CheckCycles(m) # NoError THEN CheckCycles(m)
             ELSE CheckDuplicates(sm)

----------------------------------------------------------------------------
(* read_migration_file and build_migration_chain *)

\* What the two regular expressions find in a file: the revision (None when
\* the first does not match; a match is never empty) and the down_revision
\* (None when the second does not match or matches the literal None; the
\* quoted string, possibly empty, otherwise).
Files == [revision : NonEmptyRevisions \cup {None}, down_revision : OptRevisions]

\* read_migration_file: the exception it raises, NoError when it returns
\* (f.revision, f.down_revision).
read_migration_file(f) ==
    IF f.revision = None
    THEN Err("MigrationFileError", "Could not find revision", <<>>, None)
    ELSE IF f.down_revision = EmptyStr
    THEN Err("MigrationFileError", "Empty down_revision found", <<>>, None)
    ELSE NoError

\* Mutant: the duplicate down_revision check comes first.
InsertCheck_downfirst(m, rev, down) ==
    IF down \in Values(m)
    THEN Err("DuplicateDownRevisionError", "Duplicate down_revision", <<>>, down)
    ELSE IF rev \in Keys(m)
    THEN Err("DuplicateRevisionError", "Duplicate revision", <<rev>>, None)
    ELSE NoError

\* Mutant: a None down_revision is not looked up among the values.
InsertCheck_skipnone(m, rev, down) ==
    IF rev \in Keys(m)
    THEN Err("DuplicateRevisionError", "Duplicate revision", <<rev>>, None)
    ELSE IF down # None /\ down \in Values(m)
    THEN Err("DuplicateDownRevisionError", "Duplicate down_revision", <<>>, down)
    ELSE NoError

\* The two checks made before migrations[revision] = down_revision.
InsertCheck(m, rev, down) ==
    IF rev \in Keys(m)
    THEN Err("DuplicateRevisionError", "Duplicate revision", <<rev>>, None)
    ELSE IF down \in Values(m)
    THEN Err("DuplicateDownRevisionError", "Duplicate down_revision", <<>>, down)
    ELSE NoError

----------------------------------------------------------------------------
(* has_migration_changes *)

\* A path is the sequence of its components (pathlib.Path.parts of a
\* relative path); <<>> is Path(".").
MigrationDirs == {<<"migrations">>, <<"db", "migrations">>}

StagedPaths ==
    {<<"migrations">>, <<"migrations", "v1.py">>, <<"db", "migrations", "v1.py">>,
     <<"src", "migrations">>, <<"..", "migrations", "v1.py">>}

\* Path.parents: every proper prefix.
Parents(p) == {SubSeq(p, 1, k) : k \in 0..(Len(p) - 1)}

\* Mutant: a staged path equal to the directory does not count.
has_migration_changes_noequal(staged_files, migrations_dir) ==
    \E i \in DOMAIN staged_files : migrations_dir \in Parents(staged_files[i])

has_migration_changes(staged_files, migrations_dir) ==
    \E i \in DOMAIN staged_files :
        \/ migrations_dir \in Parents(staged_files[i])
        \/ migrations_dir = staged_files[i]

----------------------------------------------------------------------------
(* Inputs *)

\* Sequences over S of length at most n.
SeqUpTo(S, n) == UNION {[1..k -> S] : k \in 0..n}

\* Every dict of at most MaxLen items, in every insertion order.
Dicts ==
    {m \in SeqUpTo(Revisions \X OptRevisions, MaxLen) :
        \A i, j \in DOMAIN m : i # j => m[i][1] # m[j][1]}

\* The identifiers of the larger dicts: MaxWide revisions that are not the
\* empty string, the keys, and the empty string.
WideRevisions == 0..MaxWide

\* The dict whose keys are the MaxWide non-empty revisions, inserted in
\* ascending order, with the predecessors v.
WideDict(v) == [i \in 1..MaxWide |-> <<i, v[i]>>]

\* The argument lists: none, or the directory and the staged files.
ArgLists ==
    {<<>>} \cup {<<d>> \o s : d \in MigrationDirs, s \in SeqUpTo(StagedPaths, MaxStaged)}

----------------------------------------------------------------------------
(* main and run_checks *)

\* main: the usage error, the skip when no staged file is a migration, or
\* the call of run_checks, which calls build_migration_chain.
Main ==
    /\ pc = "main"
    /\ IF Len(args) < 1
       THEN ret' = 1 /\ pc' = "exit"
       ELSE IF Tail(args) # <<>> /\ ~has_migration_changes(Tail(args), args[1])
       THEN ret' = 0 /\ pc' = "exit"
       ELSE ret' = ret /\ pc' = "build"
    /\ UNCHANGED <<args, dir_exists, revision, down_revision, migrations,
                   sorted_migrations, error>>

\* build_migration_chain up to its loop: the directory must exist.
BuildEnter ==
    /\ pc = "build"
    /\ IF ~dir_exists
       THEN /\ error' = Err("MigrationFileError", "Migrations directory not found",
                            <<>>, None)
            /\ pc' = "raised"
            /\ UNCHANGED migrations
       ELSE /\ migrations' = <<>>
            /\ pc' = "glob"
            /\ UNCHANGED error
    /\ UNCHANGED <<args, dir_exists, revision, down_revision, sorted_migrations, ret>>

\* One iteration of the loop over glob("*.py"): the next file is read, the
\* two duplicate checks are made and the pair is stored.
BuildLoop ==
    /\ pc = "glob"
    /\ Len(migrations) < MaxFiles
    /\ \E f \in Files :
        IF read_migration_file(f) # NoError
        THEN /\ error' = read_migration_file(f)
             /\ pc' = "raised"
             /\ UNCHANGED <<revision, down_revision, migrations>>
        ELSE /\ revision' = f.revision
             /\ down_revision' = f.down_revision
             /\ IF InsertCheck(migrations, f.revision, f.down_revision) # NoError
                THEN /\ error' = InsertCheck(migrations, f.revision, f.down_revision)
                     /\ pc' = "raised"
                     /\ UNCHANGED migrations
                ELSE /\ migrations' = Append(migrations, <<f.revision, f.down_revision>>)
                     /\ UNCHANGED <<error, pc>>
    /\ UNCHANGED <<args, dir_exists, sorted_migrations, ret>>

\* The loop ends: build_migration_chain returns migrations and run_checks
\* calls validate_migration_chain on it.
BuildReturn ==
    /\ pc = "glob"
    /\ pc' = "validate"
    /\ UNCHANGED <<args, dir_exists, revision, down_revision, migrations,
                   sorted_migrations, error, ret>>

\* validate_migration_chain: the empty dict returns at once; otherwise the
\* items are sorted.
ValidateEnter ==
    /\ pc = "validate"
    /\ IF migrations = <<>>
       THEN pc' = "returned" /\ UNCHANGED sorted_migrations
       ELSE pc' = "check_initial" /\ sorted_migrations' = SortedItems(migrations)
    /\ UNCHANGED <<args, dir_exists, revision, down_revision, migrations, error, ret>>

\* A check of validate_migration_chain: it raises, or control passes on.
CheckStep(here, e, next) ==
    /\ pc = here
    /\ IF e # NoError
       THEN error' = e /\ pc' = "raised"
       ELSE error' = error /\ pc' = next
    /\ UNCHANGED <<args, dir_exists, revision, down_revision, migrations,
                   sorted_migrations, ret>>

ValidateInitial ==
    CheckStep("check_initial", CheckMultipleInitial(sorted_migrations), "check_missing")

ValidateMissing ==
    CheckStep("check_missing", CheckMissing(migrations, sorted_migrations), "check_cycle")

ValidateCycles ==
    CheckStep("check_cycle", CheckCycles(migrations), "check_duplicate")

ValidateDuplicates ==
    CheckStep("check_duplicate", CheckDuplicates(sorted_migrations), "returned")

\* run_checks: both calls returned.
RunChecksReturn ==
    /\ pc = "returned"
    /\ ret' = 0
    /\ pc' = "exit"
    /\ UNCHANGED <<args, dir_exists, revision, down_revision, migrations,
                   sorted_migrations, error>>

\* run_checks: except MigrationError.
RunChecksExcept ==
    /\ pc = "raised"
    /\ ret' = 1
    /\ pc' = "exit"
    /\ UNCHANGED <<args, dir_exists, revision, down_revision, migrations,
                   sorted_migrations, error>>

----------------------------------------------------------------------------
(* Specifications *)

\* The command-line run: main on every argument list and directory.
Init ==
    /\ args \in ArgLists
    /\ dir_exists \in BOOLEAN
    /\ pc = "main"
    /\ revision = None
    /\ down_revision = None
    /\ migrations = <<>>
    /\ sorted_migrations = <<>>
    /\ error = NoError
    /\ ret = None

Next ==
    \/ Main
    \/ BuildEnter
    \/ BuildLoop
    \/ BuildReturn
    \/ ValidateEnter
    \/ ValidateInitial
    \/ ValidateMissing
    \/ ValidateCycles
    \/ ValidateDuplicates
    \/ RunChecksReturn
    \/ RunChecksExcept

Spec == Init /\ [][Next]_vars

\* A direct call of validate_migration_chain on every dict of Dicts and on
\* every larger dict inserted in ascending order.
InitValidate ==
    /\ args = <<>>
    /\ dir_exists = TRUE
    /\ pc = "validate"
    /\ revision = None
    /\ down_revision = None
    /\ \/ migrations \in Dicts
       \/ \E v \in [1..MaxWide -> WideRevisions \cup {None}] :
             migrations = WideDict(v)
    /\ sorted_migrations = <<>>
    /\ error = NoError
    /\ ret = None

NextValidate ==
    \/ ValidateEnter
    \/ ValidateInitial
    \/ ValidateMissing
    \/ ValidateCycles
    \/ ValidateDuplicates

SpecValidate == InitValidate /\ [][NextValidate]_vars

----------------------------------------------------------------------------
(* What a dict is, stated without the validator's operators *)

\* The revisions with no predecessor.
Roots(m) == {k \in Keys(m) : Get(m, k) = None}

\* The revisions whose predecessor is not None and is no key.
Dangling(m) == {k \in Keys(m) : Get(m, k) # None /\ Get(m, k) \notin Keys(m)}

\* The predecessor of k taken n times.
RECURSIVE PredN(_, _, _)
PredN(m, k, n) == IF n = 0 \/ k = None THEN k ELSE PredN(m, Get(m, k), n - 1)

\* k lies on a predecessor cycle.
OnCycle(m, k) == k \in Keys(m) /\ \E n \in 1..Len(m) : PredN(m, k, n) = k

HasCycle(m) == \E k \in Keys(m) : OnCycle(m, k)

\* The revisions whose predecessor is d.
Holders(m, d) == {k \in Keys(m) : Get(m, k) = d}

\* The predecessors, not None, that two distinct revisions share.
SharedPreds(m) == {d \in Values(m) \ {None} : Cardinality(Holders(m, d)) > 1}

\* The least element of a non-empty set of revisions.
Least(S) == CHOOSE x \in S : \A y \in S : x <= y

\* s lists the set S in ascending order, each element once.
AscendingListOf(s, S) ==
    /\ Len(s) = Cardinality(S)
    /\ Range(s) = S
    /\ \A i, j \in DOMAIN s : i < j => s[i] < s[j]

\* s is a predecessor cycle of m: each element's predecessor is the next
\* element, and the last element is the first.
IsCycleOf(s, m) ==
    /\ Len(s) >= 2
    /\ \A i \in 1..(Len(s) - 1) : s[i] \in Keys(m) /\ Get(m, s[i]) = s[i + 1]
    /\ s[Len(s)] = s[1]

\* A valid chain: one root, every link resolves, no shared predecessor, no
\* cycle.
ValidChain(m) ==
    /\ Cardinality(Roots(m)) = 1
    /\ Dangling(m) = {}
    /\ SharedPreds(m) = {}
    /\ ~HasCycle(m)

\* From every revision the predecessor links reach the root without
\* revisiting a revision.
ReachesRoot(m) ==
    \A k \in Keys(m) :
        \E n \in 0..(Len(m) - 1) :
            /\ PredN(m, k, n) \in Roots(m)
            /\ \A i, j \in 0..n : i # j => PredN(m, k, i) # PredN(m, k, j)

\* validate_migration_chain has returned or raised.
Finished == pc \in {"returned", "raised"}

Raised(kind) == pc = "raised" /\ error.kind = kind

----------------------------------------------------------------------------
(* C1 *)

\* C1: on the empty dict and on every valid chain (a single root alone
\* included) validate_migration_chain ends by returning None, no error
\* raised.
C1_ValidChainAccepted ==
    (Finished /\ (migrations = <<>> \/ ValidChain(migrations))) =>
        (pc = "returned" /\ error = NoError)

\* A chain of three revisions has been accepted.
C1_Witness ==
    /\ pc = "returned"
    /\ Len(migrations) = 3
    /\ ValidChain(migrations)

----------------------------------------------------------------------------
(* C2 *)

\* C2: on a dict with two or more roots validate_migration_chain ends by
\* raising MultipleInitialMigrationsError, whatever else is wrong with the
\* dict, and the error lists exactly the roots in ascending order.
C2_MultipleRoots ==
    (Finished /\ Cardinality(Roots(migrations)) >= 2) =>
        /\ Raised("MultipleInitialMigrationsError")
        /\ AscendingListOf(error.revs, Roots(migrations))

\* Two roots inserted in descending order, next to a dangling predecessor.
C2_Witness ==
    /\ Raised("MultipleInitialMigrationsError")
    /\ Dangling(migrations) # {}
    /\ \E i, j \in DOMAIN migrations :
          /\ i < j
          /\ migrations[i][2] = None
          /\ migrations[j][2] = None
          /\ migrations[i][1] > migrations[j][1]

----------------------------------------------------------------------------
(* C3 *)

\* The dangling revisions the check can see: the predecessor is truthy.
TruthyDangling(m) == {k \in Dangling(m) : Get(m, k) # EmptyStr}

\* C3: on a dict with at most one root in which some revision R has a
\* predecessor P, not None, that is no key, validate_migration_chain ends by
\* raising MissingDownRevisionError naming such a revision and its
\* predecessor.  The multiple-roots check, which runs first, is granted, and
\* so is the naming of one dangling revision only; the statement still
\* fails, on a predecessor that is the empty string.
C3_DanglingReported ==
    (/\ Finished
     /\ Cardinality(Roots(migrations)) <= 1
     /\ Dangling(migrations) # {}) =>
        /\ Raised("MissingDownRevisionError")
        /\ \E R \in Dangling(migrations) :
              /\ error.revs = <<R>>
              /\ error.down = Get(migrations, R)

----------------------------------------------------------------------------
(* C4 *)

\* C4 as stated: on every dict with a predecessor cycle
\* validate_migration_chain ends by raising CircularDependencyError, and
\* the sequence reported is a cycle of the dict.
C4_AnyCycleReported ==
    (Finished /\ HasCycle(migrations)) =>
        /\ Raised("CircularDependencyError")
        /\ IsCycleOf(error.revs, migrations)

\* C4 amended: on every dict with a predecessor cycle that passes the two
\* earlier checks (at most one root; every predecessor that is neither None
\* nor the empty string is a key), validate_migration_chain ends by raising
\* CircularDependencyError, and the sequence reported is a cycle of the
\* dict: each element's predecessor is the next, the last is the first.
C4_CycleReported ==
    (/\ Finished
     /\ HasCycle(migrations)
     /\ Cardinality(Roots(migrations)) <= 1
     /\ TruthyDangling(migrations) = {}) =>
        /\ Raised("CircularDependencyError")
        /\ IsCycleOf(error.revs, migrations)

\* A cycle found by a walk that starts outside it.
C4_Witness ==
    /\ Raised("CircularDependencyError")
    /\ ~OnCycle(migrations, migrations[1][1])
    /\ Get(migrations, migrations[1][1]) = error.revs[1]

----------------------------------------------------------------------------
(* C5 *)

\* C5 as stated: whenever two distinct revisions have the same predecessor,
\* not None, validate_migration_chain ends by raising
\* DuplicateDownRevisionError naming that predecessor and both revisions.
C5_AnyDuplicateReported ==
    Finished =>
        \A d \in SharedPreds(migrations) :
            /\ Raised("DuplicateDownRevisionError")
            /\ error.down = d
            /\ Holders(migrations, d) \subseteq Range(error.revs)

\* The shared predecessor whose least holder is least.
FirstShared(m) ==
    CHOOSE d \in SharedPreds(m) :
        \A e \in SharedPreds(m) : Least(Holders(m, d)) <= Least(Holders(m, e))

\* C5 amended: on a dict that passes the three earlier checks (at most one
\* root; every predecessor that is neither None nor the empty string is a
\* key; no cycle) and in which two distinct revisions have the same
\* predecessor, not None, validate_migration_chain ends by raising
\* DuplicateDownRevisionError naming one shared predecessor, the one whose
\* least holder is least, and all the revisions holding it in ascending
\* order.
C5_DuplicateReported ==
    (/\ Finished
     /\ SharedPreds(migrations) # {}
     /\ Cardinality(Roots(migrations)) <= 1
     /\ TruthyDangling(migrations) = {}
     /\ ~HasCycle(migrations)) =>
        /\ Raised("DuplicateDownRevisionError")
        /\ error.down = FirstShared(migrations)
        /\ AscendingListOf(error.revs, Holders(migrations, FirstShared(migrations)))

\* Two predecessors are shared, and the one reported is not the least of
\* them: its holders come first in the sorted scan.
C5_Witness ==
    /\ Raised("DuplicateDownRevisionError")
    /\ Cardinality(SharedPreds(migrations)) >= 2
    /\ \E e \in SharedPreds(migrations) :
          /\ e < error.down
          /\ Least(Holders(migrations, error.down)) < Least(Holders(migrations, e))

----------------------------------------------------------------------------
(* C6 *)

\* The error of the earliest check, in the order multiple roots, dangling
\* predecessor, cycle, duplicate predecessor, whose violation the dict has.
FirstViolation(m) ==
    IF Cardinality(Roots(m)) > 1 THEN "MultipleInitialMigrationsError"
    ELSE IF Dangling(m) # {} THEN "MissingDownRevisionError"
    ELSE IF HasCycle(m) THEN "CircularDependencyError"
    ELSE IF SharedPreds(m) # {} THEN "DuplicateDownRevisionError"
    ELSE "NoError"

\* C6: the checks run in the order multiple roots, dangling predecessor,
\* cycle, duplicate predecessor; no check runs once an error is raised; the
\* error raised is that of the earliest check whose violation the dict has,
\* and None is returned only when the dict has none of the four.
C6_FirstViolationRaised ==
    /\ pc \in {"check_initial", "check_missing", "check_cycle", "check_duplicate",
               "returned"} => error = NoError
    /\ pc = "check_missing" => Cardinality(Roots(migrations)) <= 1
    /\ Finished => error.kind = FirstViolation(migrations)

----------------------------------------------------------------------------
(* C8 *)

\* The dicts holding the items of m, in every insertion order.
Reorderings(m) == {p \in [DOMAIN m -> Range(m)] : Range(p) = Range(m)}

\* C8: the outcome of validate_migration_chain, error class and arguments
\* or success, is the same for every insertion order of the same items.
C8_OrderIndependent ==
    Finished =>
        \A p \in Reorderings(migrations) : validate_migration_chain(p) = error

----------------------------------------------------------------------------
(* C10 *)

\* C10: a non-empty dict on which validate_migration_chain returns None is a
\* valid chain: exactly one root, every predecessor that is not None is a
\* key, no predecessor is shared, and from every revision the predecessor
\* links reach the root without revisiting a revision.
C10_AcceptedIsValid ==
    (pc = "returned" /\ migrations # <<>>) =>
        /\ ValidChain(migrations)
        /\ ReachesRoot(migrations)

----------------------------------------------------------------------------
(* C7 *)

\* An iteration of the build loop whose file was read without error.
PairProcessed ==
    /\ pc = "glob"
    /\ pc' # "validate"
    /\ ~(pc' = "raised" /\ error'.kind = "MigrationFileError")

\* C7: build_migration_chain takes the pairs one at a time.  A pair whose
\* revision is already a key raises DuplicateRevisionError; otherwise a pair
\* whose down_revision, None included, is already a stored value raises
\* DuplicateDownRevisionError; otherwise the pair is appended to the dict and
\* the loop goes on.  A raise ends the build with the dict as it was, and
\* the dict returned is the dict the loop filled.
C7_BuildStep ==
    [][/\ PairProcessed =>
            IF revision' \in Keys(migrations)
            THEN /\ pc' = "raised"
                 /\ error'.kind = "DuplicateRevisionError"
                 /\ error'.revs = <<revision'>>
                 /\ migrations' = migrations
            ELSE IF down_revision' \in Values(migrations)
            THEN /\ pc' = "raised"
                 /\ error'.kind = "DuplicateDownRevisionError"
                 /\ error'.down = down_revision'
                 /\ migrations' = migrations
            ELSE /\ pc' = "glob"
                 /\ error' = NoError
                 /\ migrations' = Append(migrations, <<revision', down_revision'>>)
       /\ pc = "raised" => (pc' = "exit" /\ migrations' = migrations)
       /\ (pc = "glob" /\ pc' = "validate") =>
            (migrations' = migrations /\ error' = NoError)
      ]_vars

\* A pair that repeats both a revision and a down_revision has raised
\* DuplicateRevisionError.
C7_Witness ==
    /\ pc = "raised"
    /\ error.kind = "DuplicateRevisionError"
    /\ revision \in Keys(migrations)
    /\ down_revision \in Values(migrations)
    /\ Len(migrations) >= 2

----------------------------------------------------------------------------
(* C9 *)

\* Path f is the directory d or lies inside it.
InsideOrEqual(f, d) == Len(d) <= Len(f) /\ SubSeq(f, 1, Len(d)) = d

\* Staged files were given and none is the migrations directory or inside it.
NoneStagedInside ==
    /\ Len(args) >= 2
    /\ \A i \in 2..Len(args) : ~InsideOrEqual(args[i], args[1])

\* C9: main returns 0 exactly when staged files were given and none is the
\* migrations directory or inside it, and then it returns at once, without
\* building or validating, or when build and validation both returned; it
\* returns 1 when either raised, a missing directory included; with no
\* staged file the build always runs.
C9_ExitCode ==
    [][/\ (pc = "main" /\ NoneStagedInside) => (pc' = "exit" /\ ret' = 0)
       /\ (pc = "main" /\ Len(args) = 1) => pc' = "build"
       /\ (pc = "build" /\ ~dir_exists) => pc' = "raised"
       /\ pc = "raised" => (pc' = "exit" /\ ret' = 1)
       /\ pc' = "exit" => (ret' = 0 <=> (NoneStagedInside \/ pc = "returned"))
      ]_vars

\* main has returned 0 for staged files outside a directory that does not
\* even exist.
C9_Witness ==
    /\ pc = "exit"
    /\ ret = 0
    /\ NoneStagedInside
    /\ ~dir_exists

----------------------------------------------------------------------------
(* C11 *)

\* The errors validate_migration_chain raises, told from the builder's by
\* their messages.
ValidatorMessages ==
    {"Multiple initial migrations found", "points to non-existent revision",
     "Circular dependency found", "Multiple migrations have the same down_revision"}

\* C11: in the run of build_migration_chain followed by
\* validate_migration_chain, the dict has pairwise distinct down_revision
\* values after every insertion, so at most one None; and when the build
\* has succeeded, validation raises neither MultipleInitialMigrationsError
\* nor DuplicateDownRevisionError: it raises MissingDownRevisionError or
\* CircularDependencyError, or returns.
C11_BuilderSubsumes ==
    /\ \A i, j \in DOMAIN migrations :
          i # j => migrations[i][2] # migrations[j][2]
    /\ Cardinality(Roots(migrations)) <= 1
    /\ error.msg \in ValidatorMessages =>
          error.kind \in {"MissingDownRevisionError", "CircularDependencyError"}
    /\ pc \in {"check_missing", "check_cycle", "check_duplicate", "returned"} =>
          error = NoError

\* A dict of three pairs, a root among them, was built and validation has
\* raised on it.
C11_Witness ==
    /\ pc = "raised"
    /\ error.msg \in ValidatorMessages
    /\ Len(migrations) = 3
    /\ Roots(migrations) # {}

====
